---- MODULE Spec2Model ----
(***************************************************************************)
(* SwiftAttend: event registration and attendance check-in.                *)
(*                                                                         *)
(* Five specifications share this module:                                  *)
(*   Spec         a deployment of either variant, fixed by `variant`:      *)
(*                the local-storage variant (lib/auth, lib/storage and the *)
(*                pages that call them) or the hosted variant (SQL schema, *)
(*                lib/supabase, QRScanner) with interleaved check-in runs; *)
(*   SpecListing  the event listings (Index, Dashboard, Scanner, hosted    *)
(*                getEvents) over any stored events, any viewer, any       *)
(*                instant and any viewer time zone;                        *)
(*   SpecSignIn   lib/auth's signIn and signOut called with any arguments; *)
(*   SpecSupport  the support chat next to the store operations, over the  *)
(*                stores earlier sessions can have left;                   *)
(*   SpecScan     two handleScan invocations in one Scanner tab.           *)
(*                                                                         *)
(* Strings that the code inspects character by character (scan input, QR   *)
(* payload, backup code) are sequences of one-character strings; the id    *)
(* parts embedded in a QR payload are single tokens of such a sequence.    *)
(***************************************************************************)
EXTENDS Integers, Sequences, FiniteSets, TLC

VARIABLES
  variant,          \* which persistence adapter the deployment uses: "local" or "hosted"
  \* ---- local variant: the four localStorage keys the claims are about
  currentUser,      \* swiftattend_user            (NoUser when absent)
  events,           \* swiftattend_events          (sequence, insertion order)
  registrations,    \* swiftattend_registrations   (sequence, insertion order)
  attendances,      \* swiftattend_attendances     (sequence, insertion order)
  idCounter,        \* number of ids generateId has made for records that were stored
  userCounter,      \* number of users made by signIn
  lastOp,           \* observation: the last operation, its inputs and outcome
  \* ---- hosted variant
  hUsers,           \* table public.users         (set of rows)
  hEvents,          \* table public.events        (set of rows)
  hRegistrations,   \* table public.registrations (set of rows)
  hAttendance,      \* table public.attendance    (set of rows)
  pc,               \* per QRScanner run: position in processCheckIn
  run,              \* per QRScanner run: its props, inputs and local values
                    \* (in SpecScan: per handleScan invocation of the local Scanner)
  \* ---- Index listing
  clock,            \* the current instant, in hours since the epoch (UTC)
  tzOffset,         \* viewer's zone: local time = UTC + tzOffset hours
  shownEvents,      \* Index component state `events`
  \* ---- support chat
  supportMessages,  \* swiftattend_support_messages (sequence, insertion order)
  chatMounted,      \* whether a SupportChat is on the page
  chatEventId,      \* SupportChat prop eventId ("" when the prop is not given)
  shownMessages     \* SupportChat component state `messages`

vars == <<variant, currentUser, events, registrations, attendances, idCounter, userCounter, lastOp,
          hUsers, hEvents, hRegistrations, hAttendance, pc, run,
          clock, tzOffset, shownEvents,
          supportMessages, chatMounted, chatEventId, shownMessages>>

(***************************************************************************)
(* Bounds                                                                  *)
(***************************************************************************)
MaxIds == 4          \* records (events, registrations, attendances) stored in one behaviour
MaxUsers == 2        \* successful sign-ins in one behaviour
MaxEvents == 2       \* events created in one behaviour

(***************************************************************************)
(* Strings                                                                 *)
(***************************************************************************)
LowerChars == <<"a", "b", "c", "d", "i1", "i2", "i3", "i4", "i5", "i6", "i7", "i8",
                "u1", "u2", "u3", "u4", "u5", "t1", "t2", "t3", "t4", "t5", "t6", "t7", "t8">>
UpperChars == <<"A", "B", "C", "D", "I1", "I2", "I3", "I4", "I5", "I6", "I7", "I8",
                "U1", "U2", "U3", "U4", "U5", "T1", "T2", "T3", "T4", "T5", "T6", "T7", "T8">>

UpperOf == [c \in {LowerChars[i] : i \in 1..Len(LowerChars)} |->
              UpperChars[CHOOSE i \in 1..Len(LowerChars) : LowerChars[i] = c]]
LowerOf == [c \in {UpperChars[i] : i \in 1..Len(UpperChars)} |->
              LowerChars[CHOOSE i \in 1..Len(UpperChars) : UpperChars[i] = c]]

\* String.prototype.toUpperCase, one character
toUpperCaseChar(c) == IF c \in DOMAIN UpperOf THEN UpperOf[c] ELSE c

toLowerCaseChar(c) == IF c \in DOMAIN LowerOf THEN LowerOf[c] ELSE c

\* String.prototype.toUpperCase
toUpperCase(s) == [i \in 1..Len(s) |-> toUpperCaseChar(s[i])]

\* String.prototype.trim
RECURSIVE trimStart(_)
trimStart(s) == IF s # <<>> /\ Head(s) = " " THEN trimStart(Tail(s)) ELSE s

RECURSIVE trimEnd(_)
trimEnd(s) == IF s # <<>> /\ s[Len(s)] = " " THEN trimEnd(SubSeq(s, 1, Len(s) - 1)) ELSE s

trim(s) == trimEnd(trimStart(s))

\* Array.prototype.find / findIndex: index of the first element satisfying Test, 0 when none
FindIndex(seq, Test(_)) ==
  IF \E i \in 1..Len(seq) : Test(seq[i])
  THEN CHOOSE i \in 1..Len(seq) : Test(seq[i]) /\ \A j \in 1..(i - 1) : ~Test(seq[j])
  ELSE 0

\* Array.prototype.filter
Filter(seq, Test(_)) == SelectSeq(seq, Test)

Range(seq) == {seq[i] : i \in 1..Len(seq)}

(***************************************************************************)
(* lib/auth                                                                *)
(***************************************************************************)
ADMIN_PASSWORD == "14567"
STAFF_PASSWORD == "14567"

Roles == {"admin", "staff", "participant"}

NoUser == [id |-> "", email |-> <<>>, full_name |-> <<>>, role |-> "none"]

\* a session left in swiftattend_user by an earlier visit
StoredSession(role) == [id |-> "u5", email |-> <<"bob", "@", "nmamit.in">>, full_name |-> <<"Bob">>, role |-> role]

\* an e-mail address is a sequence of tokens: local part, "@", domain
EmailInputs == { <<>>, <<"ann">>, <<"ann", "@", "gmail.com">>, <<"ann", "@", "nmamit.in">> }
PasswordInputs == {"14567", "0000", ""}
NameInputs == { <<>>, <<"Ann">> }

\* String.prototype.includes('@')
includesAt(email) == \E i \in 1..Len(email) : email[i] = "@"

\* String.prototype.endsWith('@nmamit.in')
endsWithDomain(email) ==
  Len(email) >= 2 /\ email[Len(email) - 1] = "@" /\ email[Len(email)] = "nmamit.in"

\* email.split('@')[0]
splitAtFirst(email) ==
  LET at == FindIndex(email, LAMBDA c : c = "@")
  IN IF at = 0 THEN email ELSE SubSeq(email, 1, at - 1)

\* validateEmail without its third test
validateEmail_NoDomainCheck(email) ==
  IF email = <<>> THEN [valid |-> FALSE, error |-> "Email is required"]
  ELSE IF ~includesAt(email) THEN [valid |-> FALSE, error |-> "Please enter a valid email address"]
  ELSE [valid |-> TRUE, error |-> ""]

validateEmail(email) ==
  IF email = <<>> THEN [valid |-> FALSE, error |-> "Email is required"]
  ELSE IF ~includesAt(email) THEN [valid |-> FALSE, error |-> "Please enter a valid email address"]
  ELSE IF ~endsWithDomain(email) THEN [valid |-> FALSE, error |-> "Email must end with @nmamit.in"]
  ELSE [valid |-> TRUE, error |-> ""]

\* generateId: `${Date.now()}_${random}` is taken to be a value never stored
\* before; n is the number of ids stored so far (an id made and thrown away
\* with its record leaves no trace)
IdTokens == <<"i1", "i2", "i3", "i4", "i5", "i6", "i7", "i8">>
generateId(n) == IdTokens[n + 1]

\* the id made by signIn, `user_${Date.now()}_${random}`, likewise; n counts the users made so far
UserIdTokens == <<"u1", "u2", "u3", "u4", "u5">>
generateUserId(n) == UserIdTokens[n + 1]

\* Date.now() read while the n-th id is being made
TimeTokens == <<"t1", "t2", "t3", "t4", "t5", "t6", "t7", "t8">>
DateNow(n) == TimeTokens[n + 1]

\* signIn asking only the admin role for the password
signIn_StaffNoPassword(email, password, role, fullName, n) ==
  LET emailValidation == validateEmail(email)
  IN IF ~emailValidation.valid
       THEN [success |-> FALSE, error |-> emailValidation.error, user |-> NoUser]
     ELSE IF role = "admin" /\ password # ADMIN_PASSWORD
       THEN [success |-> FALSE, error |-> "Invalid admin password. Contact administrator for access.", user |-> NoUser]
     ELSE IF role = "participant" /\ fullName = <<>>
       THEN [success |-> FALSE, error |-> "Full name is required for participants.", user |-> NoUser]
     ELSE [success |-> TRUE, error |-> "",
           user |-> [id |-> generateUserId(n), email |-> email,
                     full_name |-> IF fullName # <<>> THEN fullName ELSE splitAtFirst(email),
                     role |-> role]]

\* signIn taking the user's id from the e-mail address
signIn_IdFromEmail(email, password, role, fullName, n) ==
  LET emailValidation == validateEmail(email)
  IN IF ~emailValidation.valid
       THEN [success |-> FALSE, error |-> emailValidation.error, user |-> NoUser]
     ELSE IF role = "admin" /\ password # ADMIN_PASSWORD
       THEN [success |-> FALSE, error |-> "Invalid admin password. Contact administrator for access.", user |-> NoUser]
     ELSE IF role = "staff" /\ password # STAFF_PASSWORD
       THEN [success |-> FALSE, error |-> "Invalid staff password. Contact administrator for access.", user |-> NoUser]
     ELSE IF role = "participant" /\ fullName = <<>>
       THEN [success |-> FALSE, error |-> "Full name is required for participants.", user |-> NoUser]
     ELSE [success |-> TRUE, error |-> "",
           user |-> [id |-> email[1], email |-> email,
                     full_name |-> IF fullName # <<>> THEN fullName ELSE splitAtFirst(email),
                     role |-> role]]

\* signIn: success, the error message ("" for none) and the user it stored
signIn(email, password, role, fullName, n) ==
  LET emailValidation == validateEmail(email)
  IN IF ~emailValidation.valid
       THEN [success |-> FALSE, error |-> emailValidation.error, user |-> NoUser]
     ELSE IF role = "admin" /\ password # ADMIN_PASSWORD
       THEN [success |-> FALSE, error |-> "Invalid admin password. Contact administrator for access.", user |-> NoUser]
     ELSE IF role = "staff" /\ password # STAFF_PASSWORD
       THEN [success |-> FALSE, error |-> "Invalid staff password. Contact administrator for access.", user |-> NoUser]
     ELSE IF role = "participant" /\ fullName = <<>>
       THEN [success |-> FALSE, error |-> "Full name is required for participants.", user |-> NoUser]
     ELSE [success |-> TRUE, error |-> "",
           user |-> [id |-> generateUserId(n), email |-> email,
                     full_name |-> IF fullName # <<>> THEN fullName ELSE splitAtFirst(email),
                     role |-> role]]

\* JSON.stringify(user): the keys with their values, in the order of the object
JSONStringifyUser(user) ==
  << <<"id", user.id>>, <<"email", user.email>>, <<"full_name", user.full_name>>, <<"role", user.role>> >>

\* JSON.parse of such a text: the object with those keys and values
JSONParseUser(userStr) ==
  [key \in {userStr[i][1] : i \in 1..Len(userStr)} |->
     userStr[CHOOSE i \in 1..Len(userStr) : userStr[i][1] = key][2]]

\* localStorage.getItem of a key that is not set
NoItem == <<>>

\* getCurrentUser answering null whatever is stored
getCurrentUser_Null(userStr) == NoUser

\* getCurrentUser, given the item stored under swiftattend_user; null is NoUser
getCurrentUser(userStr) == IF userStr = NoItem THEN NoUser ELSE JSONParseUser(userStr)

(***************************************************************************)
(* lib/storage                                                             *)
(***************************************************************************)
BackupCodeLength == 8
\* chars of generateBackupCode
BackupCodeChars ==
  {"A", "B", "C", "D", "E", "F", "G", "H", "I", "J", "K", "L", "M", "N", "O", "P", "Q", "R", "S",
   "T", "U", "V", "W", "X", "Y", "Z", "0", "1", "2", "3", "4", "5", "6", "7", "8", "9"}

\* values generateBackupCode can return: 8 characters of A-Z0-9, drawn at random
\* with no look at the codes already stored
BackupCodePool == { <<"A", "B", "1", "2", "C", "D", "3", "4">>,
                    <<"D", "C", "B", "A", "4", "3", "2", "1">> }

generateBackupCode == BackupCodePool

generateQRCodeData(eventId, userId, registrationId, now) ==
  <<"S", "W", "I", "F", "T", "A", "T", "T", "E", "N", "D", "_",
    eventId, "_", userId, "_", registrationId, "_", now>>

\* createEvent: the stored list with the new event pushed
createEvent(evs, eventData, n) ==
  Append(evs, [id |-> generateId(n), event_date |-> eventData.event_date,
               max_capacity |-> eventData.max_capacity, created_by |-> eventData.created_by])

getEventById(evs, eventId) == FindIndex(evs, LAMBDA ev : ev.id = eventId)

AlreadyRegisteredError == "Already registered for this event"

\* registerForEvent with the "Check if already registered" block left out
registerForEvent_NoDuplicateCheck(regs, eventId, userId, userName, userEmail, n, backupCode) ==
  LET registrationId == generateId(n)
  IN [threw |-> "", id |-> registrationId,
      regs |-> Append(regs, [id |-> registrationId, event_id |-> eventId, user_id |-> userId,
                             user_name |-> userName, user_email |-> userEmail,
                             qr_code_data |-> generateQRCodeData(eventId, userId, registrationId, DateNow(n)),
                             backup_code |-> backupCode])]

\* registerForEvent returning quietly, instead of throwing, when the pair is stored
registerForEvent_SilentDuplicate(regs, eventId, userId, userName, userEmail, n, backupCode) ==
  LET registrationId == generateId(n)
  IN IF \E i \in 1..Len(regs) : regs[i].event_id = eventId /\ regs[i].user_id = userId
       THEN [threw |-> "", regs |-> regs, id |-> ""]
       ELSE [threw |-> "", id |-> registrationId,
             regs |-> Append(regs, [id |-> registrationId, event_id |-> eventId, user_id |-> userId,
                                    user_name |-> userName, user_email |-> userEmail,
                                    qr_code_data |-> generateQRCodeData(eventId, userId, registrationId, DateNow(n)),
                                    backup_code |-> backupCode])]

\* registerForEvent turning a registration away once the event has a
\* registration (every event of the model has max_capacity 1)
registerForEvent_Full(regs, eventId, userId, userName, userEmail, n, backupCode) ==
  LET registrationId == generateId(n)
      registration == [id |-> registrationId, event_id |-> eventId, user_id |-> userId,
                       user_name |-> userName, user_email |-> userEmail,
                       qr_code_data |-> generateQRCodeData(eventId, userId, registrationId, DateNow(n)),
                       backup_code |-> backupCode]
      existingRegistration == FindIndex(regs, LAMBDA reg : reg.event_id = eventId /\ reg.user_id = userId)
  IN IF existingRegistration # 0
       THEN [threw |-> AlreadyRegisteredError, regs |-> regs, id |-> ""]
     ELSE IF \E i \in 1..Len(regs) : regs[i].event_id = eventId
       THEN [threw |-> "Event is full", regs |-> regs, id |-> ""]
       ELSE [threw |-> "", regs |-> Append(regs, registration), id |-> registrationId]

\* registerForEvent: threw is the Error message ("" when it returned), regs the stored list afterwards
registerForEvent(regs, eventId, userId, userName, userEmail, n, backupCode) ==
  LET registrationId == generateId(n)
      registration == [id |-> registrationId, event_id |-> eventId, user_id |-> userId,
                       user_name |-> userName, user_email |-> userEmail,
                       qr_code_data |-> generateQRCodeData(eventId, userId, registrationId, DateNow(n)),
                       backup_code |-> backupCode]
      existingRegistration == FindIndex(regs, LAMBDA reg : reg.event_id = eventId /\ reg.user_id = userId)
  IN IF existingRegistration # 0
       THEN [threw |-> AlreadyRegisteredError, regs |-> regs, id |-> ""]
       ELSE [threw |-> "", regs |-> Append(regs, registration), id |-> registrationId]

getEventRegistrations(regs, eventId) == Filter(regs, LAMBDA reg : reg.event_id = eventId)

checkRegistrationStatus(regs, eventId, userId) ==
  FindIndex(regs, LAMBDA reg : reg.event_id = eventId /\ reg.user_id = userId)

\* deleteRegistration without the removal of the attendance records
deleteRegistration_NoCascade(regs, atts, registrationId) ==
  LET filteredRegistrations == Filter(regs, LAMBDA reg : reg.id # registrationId)
  IN [ok |-> Len(filteredRegistrations) # Len(regs), regs |-> filteredRegistrations, atts |-> atts]

\* deleteRegistration: ok is the returned boolean
deleteRegistration(regs, atts, registrationId) ==
  LET filteredRegistrations == Filter(regs, LAMBDA reg : reg.id # registrationId)
  IN IF Len(filteredRegistrations) = Len(regs)
       THEN [ok |-> FALSE, regs |-> regs, atts |-> atts]
       ELSE [ok |-> TRUE, regs |-> filteredRegistrations,
             atts |-> Filter(atts, LAMBDA att : att.registration_id # registrationId)]

\* findRegistrationByQR: index of the registration found, 0 for null
findRegistrationByQR(regs, qrData) ==
  FindIndex(regs, LAMBDA reg : reg.qr_code_data = qrData)

\* findRegistrationByBackupCode comparing the first four characters only
findRegistrationByBackupCode_Prefix(regs, backupCode) ==
  FindIndex(regs, LAMBDA reg : SubSeq(reg.backup_code, 1, 4) = SubSeq(toUpperCase(backupCode), 1, 4))

findRegistrationByBackupCode(regs, backupCode) ==
  FindIndex(regs, LAMBDA reg : reg.backup_code = toUpperCase(backupCode))

\* isAttendeeCheckedIn comparing the attendance record's own id
isAttendeeCheckedIn_WrongField(atts, registrationId) ==
  \E i \in 1..Len(atts) : atts[i].id = registrationId

isAttendeeCheckedIn(atts, registrationId) ==
  \E i \in 1..Len(atts) : atts[i].registration_id = registrationId

\* checkInAttendee rewriting the stored record of a registration that is already
\* checked in, instead of throwing
checkInAttendee_Overwrite(regs, atts, registrationId, method, staffId, n) ==
  LET idx == FindIndex(regs, LAMBDA reg : reg.id = registrationId)
      old == FindIndex(atts, LAMBDA att : att.registration_id = registrationId)
  IN IF idx = 0 THEN [threw |-> "Registration not found", atts |-> atts]
     ELSE IF old # 0
       THEN [threw |-> "Already checked in",
             atts |-> [atts EXCEPT ![old].check_in_method = method, ![old].staff_id = staffId]]
     ELSE [threw |-> "",
           atts |-> Append(atts, [id |-> generateId(n), registration_id |-> registrationId,
                                  event_id |-> regs[idx].event_id, user_id |-> regs[idx].user_id,
                                  check_in_method |-> method, staff_id |-> staffId])]

\* checkInAttendee: threw is the Error message ("" when it returned), atts the stored list afterwards
checkInAttendee(regs, atts, registrationId, method, staffId, n) ==
  LET idx == FindIndex(regs, LAMBDA reg : reg.id = registrationId)
  IN IF idx = 0 THEN [threw |-> "Registration not found", atts |-> atts]
     ELSE IF isAttendeeCheckedIn(atts, registrationId) THEN [threw |-> "Already checked in", atts |-> atts]
     ELSE [threw |-> "",
           atts |-> Append(atts, [id |-> generateId(n), registration_id |-> registrationId,
                                  event_id |-> regs[idx].event_id, user_id |-> regs[idx].user_id,
                                  check_in_method |-> method, staff_id |-> staffId])]

getEventAttendances(atts, eventId) == Filter(atts, LAMBDA att : att.event_id = eventId)

\* getEventStats counting the attendance records of every event
getEventStats_AllAttendances(regs, atts, eventId) ==
  LET eventRegistrations == getEventRegistrations(regs, eventId)
  IN [totalRegistrations |-> Len(eventRegistrations),
      totalAttendances |-> Len(atts),
      attendanceRate |-> IF Len(eventRegistrations) > 0
                           THEN <<Len(atts) * 100, Len(eventRegistrations)>>
                           ELSE <<0, 1>>]

\* getEventStats; attendanceRate is the quotient it computes, kept exact as
\* <<numerator, denominator>> (0 is <<0, 1>>)
getEventStats(regs, atts, eventId) ==
  LET eventRegistrations == getEventRegistrations(regs, eventId)
      eventAttendances == getEventAttendances(atts, eventId)
  IN [totalRegistrations |-> Len(eventRegistrations),
      totalAttendances |-> Len(eventAttendances),
      attendanceRate |-> IF Len(eventRegistrations) > 0
                           THEN <<Len(eventAttendances) * 100, Len(eventRegistrations)>>
                           ELSE <<0, 1>>]

\* an optional field that is not set
NoValue == ""

\* createSupportMessage: the stored list afterwards; created_at is the time of
\* creation as a number (later is larger), n the number of ids made so far
createSupportMessage(msgs, eventId, userId, userName, userEmail, message, n) ==
  Append(msgs, [id |-> generateId(n), event_id |-> eventId, user_id |-> userId,
                user_name |-> userName, user_email |-> userEmail, message |-> message,
                status |-> "open", created_at |-> n + 1,
                resolved_at |-> NoValue, resolved_by |-> NoValue])

getEventSupportMessages(msgs, eventId) == Filter(msgs, LAMBDA msg : msg.event_id = eventId)

\* resolveSupportMessage setting the status only
resolveSupportMessage_StatusOnly(msgs, messageId, resolvedBy, now) ==
  LET messageIndex == FindIndex(msgs, LAMBDA msg : msg.id = messageId)
  IN IF messageIndex = 0 THEN [ok |-> FALSE, msgs |-> msgs]
     ELSE [ok |-> TRUE, msgs |-> [msgs EXCEPT ![messageIndex].status = "resolved"]]

\* resolveSupportMessage: ok is its return value, msgs the stored list afterwards
resolveSupportMessage(msgs, messageId, resolvedBy, now) ==
  LET messageIndex == FindIndex(msgs, LAMBDA msg : msg.id = messageId)
  IN IF messageIndex = 0 THEN [ok |-> FALSE, msgs |-> msgs]
     ELSE [ok |-> TRUE, msgs |-> [msgs EXCEPT ![messageIndex].status = "resolved",
                                              ![messageIndex].resolved_at = now,
                                              ![messageIndex].resolved_by = resolvedBy]]

(***************************************************************************)
(* pages/Scanner (local variant)                                           *)
(***************************************************************************)
\* the first two lookups of handleScan: by QR payload, and only when that
\* finds nothing by backup code; index of the registration found, 0 for null
scanLookup(regs, scanInput) ==
  LET byQR == findRegistrationByQR(regs, trim(scanInput))
  IN IF byQR # 0 THEN byQR
     ELSE findRegistrationByBackupCode(regs, toUpperCase(trim(scanInput)))

\* handleScan without the event check
scanWrongEvent_Skipped(registration, selectedEventId) == FALSE

\* "Check if registration is for the selected event"
scanWrongEvent(registration, selectedEventId) == registration.event_id # selectedEventId

\* handleScan leaving the already-checked-in check to checkInAttendee
scanAlreadyCheckedIn_Skipped(atts, registration) == FALSE

\* "Check if already checked in"
scanAlreadyCheckedIn(atts, registration) == isAttendeeCheckedIn(atts, registration.id)

QrLengthThreshold == 10

scanMethod(scanInput) == IF Len(scanInput) > QrLengthThreshold THEN "qr_scan" ELSE "backup_code"

MsgSelectAndEnter == <<"Please select an event and enter QR code or backup code">>
MsgInvalidCode == <<"Invalid QR code or backup code">>
MsgWrongEvent == <<"This registration is not for the selected event">>
MsgAlreadyCheckedIn(name) == name \o <<" is already checked in">>
\* the text starts with a check-mark emoji (U+2705), written here as "[ok] "
MsgCheckedIn(name) == <<"[ok] ">> \o name \o <<" checked in successfully!">>
MsgCheckInFailed == <<"Failed to check in attendee">>

\* handleScan with the already-checked-in check ahead of the event check
handleScan_AlreadyFirst(regs, atts, selectedEventId, scanInput, user, n) ==
  IF selectedEventId = "" \/ trim(scanInput) = <<>>
    THEN [type |-> "error", text |-> MsgSelectAndEnter, called |-> FALSE, atts |-> atts, reg |-> ""]
  ELSE
    LET idx == scanLookup(regs, scanInput)
    IN IF idx = 0
         THEN [type |-> "error", text |-> MsgInvalidCode, called |-> FALSE, atts |-> atts, reg |-> ""]
       ELSE IF scanAlreadyCheckedIn(atts, regs[idx])
         THEN [type |-> "error", text |-> MsgAlreadyCheckedIn(regs[idx].user_name), called |-> FALSE,
               atts |-> atts, reg |-> regs[idx].id]
       ELSE IF scanWrongEvent(regs[idx], selectedEventId)
         THEN [type |-> "error", text |-> MsgWrongEvent, called |-> FALSE, atts |-> atts, reg |-> regs[idx].id]
       ELSE
         LET res == checkInAttendee(regs, atts, regs[idx].id, scanMethod(scanInput), user.id, n)
         IN IF res.threw # ""
              THEN [type |-> "error", text |-> MsgCheckInFailed, called |-> TRUE, atts |-> res.atts, reg |-> regs[idx].id]
              ELSE [type |-> "success", text |-> MsgCheckedIn(regs[idx].user_name), called |-> TRUE,
                    atts |-> res.atts, reg |-> regs[idx].id]

\* handleScan: the message it sets, whether it called checkInAttendee, and the
\* attendance list afterwards
handleScan(regs, atts, selectedEventId, scanInput, user, n) ==
  IF selectedEventId = "" \/ trim(scanInput) = <<>>
    THEN [type |-> "error", text |-> MsgSelectAndEnter, called |-> FALSE, atts |-> atts, reg |-> ""]
  ELSE
    LET idx == scanLookup(regs, scanInput)
    IN IF idx = 0
         THEN [type |-> "error", text |-> MsgInvalidCode, called |-> FALSE, atts |-> atts, reg |-> ""]
       ELSE IF scanWrongEvent(regs[idx], selectedEventId)
         THEN [type |-> "error", text |-> MsgWrongEvent, called |-> FALSE, atts |-> atts, reg |-> regs[idx].id]
       ELSE IF scanAlreadyCheckedIn(atts, regs[idx])
         THEN [type |-> "error", text |-> MsgAlreadyCheckedIn(regs[idx].user_name), called |-> FALSE,
               atts |-> atts, reg |-> regs[idx].id]
       ELSE
         LET res == checkInAttendee(regs, atts, regs[idx].id, scanMethod(scanInput), user.id, n)
         IN IF res.threw # ""
              THEN [type |-> "error", text |-> MsgCheckInFailed, called |-> TRUE, atts |-> res.atts, reg |-> regs[idx].id]
              ELSE [type |-> "success", text |-> MsgCheckedIn(regs[idx].user_name), called |-> TRUE,
                    atts |-> res.atts, reg |-> regs[idx].id]

(***************************************************************************)
(* The local variant as a state machine                                    *)
(***************************************************************************)
NoOp == [op |-> "none", input |-> <<>>, event |-> "", reg |-> "", threw |-> "",
         type |-> "", text |-> <<>>, called |-> FALSE]
\* op: the operation; input, event, reg: what it was given; threw: the Error it
\* threw or returned; type, text: the message shown; called: whether handleScan
\* called checkInAttendee, or deleteRegistration removed an attendance record

EventDates == {1}
CapacityInputs == {1}

RegistrationIds == {registrations[i].id : i \in 1..Len(registrations)}
\* a registration id a page can still hold: one that is stored, or one whose
\* registration has been deleted since the page loaded
StaleId == "i8"
KnownRegistrationIds == RegistrationIds \cup {StaleId}
EventIds == {events[i].id : i \in 1..Len(events)}

\* what can be typed or scanned into the Scanner's input: each stored QR payload
\* and backup code, as is, in mixed case and with blanks around
\* it; a code nobody holds; blanks only
MixedCase(s) == [i \in 1..Len(s) |-> IF i % 2 = 1 THEN toLowerCaseChar(s[i]) ELSE s[i]]
UnknownCode == <<"A", "B", "1", "2", "X", "Y", "9", "9">>
ScanInputs ==
  UNION { { registrations[i].qr_code_data,
            registrations[i].backup_code,
            MixedCase(registrations[i].backup_code),
            <<" ", " ">> \o registrations[i].backup_code \o <<" ">> } : i \in 1..Len(registrations) }
  \cup { UnknownCode, <<" ">> }

\* the Scanner's event selector and input together; with no event selected the
\* input makes no difference
ScannerInputs == (EventIds \X ScanInputs) \cup {<<"", UnknownCode>>}

\* Every handler starts by dropping what the operation before it left on the
\* page (setMessage(null), setError(null), setSuccess(null)); that first step is
\* taken on its own, so an operation begins with nothing on display.
MessageCleared == lastOp = NoOp

hostedIdle == UNCHANGED <<hUsers, hEvents, hRegistrations, hAttendance, pc, run>>
listingIdle == UNCHANGED <<variant, clock, tzOffset, shownEvents>>
supportIdle == UNCHANGED <<supportMessages, chatMounted, chatEventId, shownMessages>>

\* AuthForm: the submit button is enabled only while isFormValid
isFormValid(email, password, role, fullName) ==
  /\ email # <<>>
  /\ fullName # <<>>
  /\ validateEmail(email).valid
  /\ (role \in {"admin", "staff"} => password # "")

\* AuthForm.handleSubmit: validateEmail, then signIn
SignIn(email, password, role, fullName) ==
  /\ variant = "local"
  /\ MessageCleared
  /\ ~chatMounted
  /\ currentUser = NoUser                  \* AuthWrapper renders AuthForm only while no user is signed in
  /\ userCounter < MaxUsers
  /\ isFormValid(email, password, role, fullName)
  /\ LET result == signIn(email, password, role, fullName, userCounter)
     IN /\ currentUser' = IF result.success THEN result.user ELSE currentUser
        /\ userCounter' = IF result.success THEN userCounter + 1 ELSE userCounter
        /\ lastOp' = [NoOp EXCEPT !.op = "signIn", !.input = email, !.threw = result.error,
                                  !.type = IF result.success THEN "success" ELSE "error"]
  /\ UNCHANGED <<events, registrations, attendances, idCounter>>
  /\ hostedIdle /\ listingIdle /\ supportIdle

\* AuthWrapper.handleSignOut
SignOut ==
  /\ variant = "local"
  /\ MessageCleared
  /\ ~chatMounted
  /\ currentUser # NoUser
  /\ currentUser' = NoUser
  /\ lastOp' = [NoOp EXCEPT !.op = "signOut"]
  /\ UNCHANGED <<events, registrations, attendances, idCounter, userCounter>>
  /\ hostedIdle /\ listingIdle /\ supportIdle

\* Dashboard.handleCreateEvent
HandleCreateEvent(date, capacity) ==
  /\ variant = "local"
  /\ MessageCleared
  /\ ~chatMounted
  /\ currentUser # NoUser
  /\ idCounter < MaxIds
  /\ Len(events) < MaxEvents
  /\ events' = createEvent(events, [event_date |-> date, max_capacity |-> capacity,
                                    created_by |-> currentUser.id], idCounter)
  /\ idCounter' = idCounter + 1
  /\ lastOp' = [NoOp EXCEPT !.op = "createEvent", !.event = generateId(idCounter), !.type = "success"]
  /\ UNCHANGED <<currentUser, registrations, attendances, userCounter>>
  /\ hostedIdle /\ listingIdle /\ supportIdle

\* EventDetails.handleOneClickRegister; the page's own `registration` state may be
\* out of date, so the button can be pressed for a pair that is already stored
HandleOneClickRegister(eventId) ==
  /\ variant = "local"
  /\ MessageCleared
  /\ ~chatMounted
  /\ currentUser.role = "participant"
  /\ getEventById(events, eventId) # 0
  /\ idCounter < MaxIds
  /\ \E backupCode \in generateBackupCode :
       LET res == registerForEvent(registrations, eventId, currentUser.id, currentUser.full_name,
                                   currentUser.email, idCounter, backupCode)
       IN /\ registrations' = res.regs
          /\ lastOp' = [NoOp EXCEPT !.op = "registerForEvent", !.event = eventId, !.input = <<currentUser.id>>,
                                    !.reg = res.id, !.threw = res.threw,
                                    !.type = IF res.threw = "" THEN "success" ELSE "error",
                                    !.text = IF res.threw = "" THEN <<"Successfully registered">>
                                             ELSE <<"Failed to register for event">>]
          /\ idCounter' = IF res.threw = "" THEN idCounter + 1 ELSE idCounter
  /\ UNCHANGED <<currentUser, events, attendances, userCounter>>
  /\ hostedIdle /\ listingIdle /\ supportIdle

\* Dashboard.handleDeleteRegistration, confirmed; the dialog's list may be out of date
HandleDeleteRegistration(registrationId) ==
  /\ variant = "local"
  /\ MessageCleared
  /\ ~chatMounted
  /\ currentUser # NoUser
  /\ LET res == deleteRegistration(registrations, attendances, registrationId)
     IN /\ registrations' = res.regs
        /\ attendances' = res.atts
        /\ lastOp' = [NoOp EXCEPT !.op = "deleteRegistration", !.reg = registrationId,
                                  !.called = (res.atts # attendances),
                                  !.type = IF res.ok THEN "success" ELSE "error",
                                  !.text = IF res.ok THEN <<"Registration deleted successfully">>
                                           ELSE <<"Failed to delete registration">>]
  /\ UNCHANGED <<currentUser, events, idCounter, userCounter>>
  /\ hostedIdle /\ listingIdle /\ supportIdle

\* the Scanner page rendering its form for every signed-in user
scannerAccessDenied_Open(user) == FALSE

\* the Scanner's role gate: user.role !== 'staff' && user.role !== 'admin'
scannerAccessDenied(user) == user.role # "staff" /\ user.role # "admin"

MsgAccessDenied == <<"Access denied. Staff or Admin role required.">>

\* /scanner opened by a session the gate turns away: the page is the alert and
\* a button back to the home page, with no input to scan with
ScannerDenied ==
  /\ variant = "local"
  /\ MessageCleared
  /\ ~chatMounted
  /\ currentUser # NoUser
  /\ scannerAccessDenied(currentUser)
  /\ lastOp' = [NoOp EXCEPT !.op = "openScanner", !.type = "error", !.text = MsgAccessDenied]
  /\ UNCHANGED <<currentUser, events, registrations, attendances, idCounter, userCounter>>
  /\ hostedIdle /\ listingIdle /\ supportIdle

\* Scanner.handleScan, behind the Scanner's role gate
HandleScan(selectedEventId, scanInput) ==
  /\ variant = "local"
  /\ MessageCleared
  /\ ~chatMounted
  /\ currentUser # NoUser
  /\ ~scannerAccessDenied(currentUser)
  /\ LET res == handleScan(registrations, attendances, selectedEventId, scanInput, currentUser, idCounter)
     IN /\ res.atts # attendances => idCounter < MaxIds
        /\ attendances' = res.atts
        /\ idCounter' = IF res.atts # attendances THEN idCounter + 1 ELSE idCounter
        /\ lastOp' = [NoOp EXCEPT !.op = "handleScan", !.input = scanInput, !.event = selectedEventId,
                                  !.reg = res.reg, !.type = res.type, !.text = res.text,
                                  !.called = res.called]
  /\ UNCHANGED <<currentUser, events, registrations, userCounter>>
  /\ hostedIdle /\ listingIdle /\ supportIdle

\* checkInAttendee called directly, with any registration id and method; its
\* one call site is in the Scanner page, past the role gate
CheckInAttendee(registrationId, method) ==
  /\ variant = "local"
  /\ MessageCleared
  /\ ~chatMounted
  /\ currentUser # NoUser
  /\ ~scannerAccessDenied(currentUser)
  /\ LET res == checkInAttendee(registrations, attendances, registrationId, method, currentUser.id, idCounter)
     IN /\ res.threw = "" => idCounter < MaxIds
        /\ attendances' = res.atts
        /\ idCounter' = IF res.threw = "" THEN idCounter + 1 ELSE idCounter
        /\ lastOp' = [NoOp EXCEPT !.op = "checkInAttendee", !.reg = registrationId, !.threw = res.threw,
                                  !.called = TRUE]
  /\ UNCHANGED <<currentUser, events, registrations, userCounter>>
  /\ hostedIdle /\ listingIdle /\ supportIdle

(***************************************************************************)
(* components/SupportChat                                                  *)
(***************************************************************************)
MaxMessages == 2     \* support messages stored in one behaviour

\* Array.prototype.sort with (a, b) => b.created_at - a.created_at: latest first,
\* messages of the same instant in the order they had
RECURSIVE sortByCreatedDesc(_)
sortByCreatedDesc(msgs) ==
  IF msgs = <<>> THEN <<>>
  ELSE LET first == Head(msgs)
           rest == sortByCreatedDesc(Tail(msgs))
           k == FindIndex(rest, LAMBDA msg : msg.created_at <= first.created_at)
       IN IF k = 0 THEN Append(rest, first)
          ELSE SubSeq(rest, 1, k - 1) \o <<first>> \o SubSeq(rest, k, Len(rest))

\* loadMessages showing every user the whole list
loadMessages_NoRoleFilter(msgs, user, eventId) ==
  LET filteredMessages == IF eventId # "" THEN Filter(msgs, LAMBDA msg : msg.event_id = eventId)
                          ELSE msgs
  IN sortByCreatedDesc(filteredMessages)

\* SupportChat.loadMessages: the list it puts on display
loadMessages(msgs, user, eventId) ==
  LET userMessages == IF user.role = "admin" THEN msgs
                      ELSE Filter(msgs, LAMBDA msg : msg.user_id = user.id)
      filteredMessages == IF eventId # "" THEN Filter(userMessages, LAMBDA msg : msg.event_id = eventId)
                          ELSE userMessages
  IN sortByCreatedDesc(filteredMessages)

IssueTypes == {"", "Other"}
MessageInputs == { <<" ">>, <<"h", "e", "l", "p">> }

\* a SupportChat comes onto the page (the Get Help dialog of Index, the support
\* tab of Dashboard): its effect runs loadMessages. The handlers of the other
\* pages run while no chat is on the page; they change neither the user nor
\* the stored messages, so the chat reads the same when it is opened after them.
ChatMount(eventId) ==
  /\ variant = "local"
  /\ MessageCleared
  /\ ~chatMounted
  /\ currentUser # NoUser
  /\ chatMounted' = TRUE
  /\ chatEventId' = eventId
  /\ shownMessages' = loadMessages(supportMessages, currentUser, eventId)
  /\ UNCHANGED <<supportMessages, lastOp>>
  /\ UNCHANGED <<currentUser, events, registrations, attendances, idCounter, userCounter>>
  /\ hostedIdle /\ listingIdle

\* the chat leaves the page
ChatUnmount ==
  /\ variant = "local"
  /\ MessageCleared
  /\ chatMounted
  /\ chatMounted' = FALSE
  /\ chatEventId' = ""
  /\ shownMessages' = <<>>
  /\ UNCHANGED <<supportMessages, lastOp>>
  /\ UNCHANGED <<currentUser, events, registrations, attendances, idCounter, userCounter>>
  /\ hostedIdle /\ listingIdle

\* SupportChat.handleSubmitMessage; the Report Issue dialog is there for participants
HandleSubmitMessage(issueType, message) ==
  /\ variant = "local"
  /\ MessageCleared
  /\ chatMounted
  /\ currentUser.role = "participant"
  /\ IF issueType = "" \/ trim(message) = <<>>
       THEN /\ lastOp' = [NoOp EXCEPT !.op = "submitMessage", !.type = "error",
                                      !.text = <<"Please fill in all fields">>]
            /\ UNCHANGED <<supportMessages, shownMessages, idCounter>>
       ELSE /\ idCounter < MaxIds
            /\ Len(supportMessages) < MaxMessages
            /\ supportMessages' = createSupportMessage(supportMessages,
                                     IF chatEventId # "" THEN chatEventId ELSE "general",
                                     currentUser.id, currentUser.full_name, currentUser.email,
                                     <<"[", issueType, "] ">> \o message, idCounter)
            /\ shownMessages' = <<supportMessages'[Len(supportMessages')]>> \o shownMessages
            /\ idCounter' = idCounter + 1
            /\ lastOp' = [NoOp EXCEPT !.op = "submitMessage", !.reg = generateId(idCounter),
                                      !.event = chatEventId, !.type = "success",
                                      !.text = <<"Your message has been sent to admin. You will receive a response soon.">>]
  /\ UNCHANGED <<chatMounted, chatEventId>>
  /\ UNCHANGED <<currentUser, events, registrations, attendances, userCounter>>
  /\ hostedIdle /\ listingIdle

\* SupportChat.handleResolveMessage, from the button an admin has on an open message
HandleResolveMessage(messageId) ==
  /\ variant = "local"
  /\ MessageCleared
  /\ chatMounted
  /\ currentUser.role = "admin"
  /\ \E k \in 1..Len(shownMessages) : shownMessages[k].id = messageId /\ shownMessages[k].status = "open"
  /\ LET res == resolveSupportMessage(supportMessages, messageId, currentUser.id, DateNow(idCounter))
     IN /\ supportMessages' = res.msgs
        /\ shownMessages' = IF res.ok THEN loadMessages(res.msgs, currentUser, chatEventId)
                             ELSE shownMessages
        /\ lastOp' = [NoOp EXCEPT !.op = "resolveMessage", !.reg = messageId,
                                  !.type = IF res.ok THEN "success" ELSE "error",
                                  !.text = IF res.ok THEN <<"Message marked as resolved">>
                                           ELSE <<"Failed to resolve message">>]
  /\ UNCHANGED <<chatMounted, chatEventId>>
  /\ UNCHANGED <<currentUser, events, registrations, attendances, idCounter, userCounter>>
  /\ hostedIdle /\ listingIdle

MessageIds == {supportMessages[i].id : i \in 1..Len(supportMessages)}

LocalInit ==
  /\ currentUser = NoUser
  /\ events = <<>>
  /\ registrations = <<>>
  /\ attendances = <<>>
  /\ idCounter = 0
  /\ userCounter = 0
  /\ lastOp = NoOp

LocalNext ==
  \/ \E email \in EmailInputs, password \in PasswordInputs, role \in Roles, fullName \in NameInputs :
       SignIn(email, password, role, fullName)
  \/ SignOut
  \/ \E date \in EventDates, capacity \in CapacityInputs : HandleCreateEvent(date, capacity)
  \/ \E eventId \in EventIds : HandleOneClickRegister(eventId)
  \/ \E registrationId \in KnownRegistrationIds : HandleDeleteRegistration(registrationId)
  \/ ScannerDenied
  \/ \E in \in ScannerInputs : HandleScan(in[1], in[2])
  \/ \E registrationId \in KnownRegistrationIds, method \in {"qr_scan", "backup_code"} :
       CheckInAttendee(registrationId, method)

(***************************************************************************)
(* The hosted variant: SQL schema, lib/supabase, EventCard, QRScanner      *)
(***************************************************************************)
MaxHostedEvents == 2     \* events inserted in one behaviour
Scanners == {1, 2}       \* QRScanner runs that can be in flight together

\* the accounts that sign up: an administrator, who creates the events and may
\* check attendees in (the policies treat staff as they treat admin there), and
\* a participant
HostedAccounts == { [id |-> "Ua", role |-> "admin"], [id |-> "Up", role |-> "participant"] }
HostedEventIds == <<"E1", "E2", "E3", "E4">>

\* values Math.random().toString(36).substr(2, 8).toUpperCase() can take: up to 8
\* characters of 0-9A-Z; fewer than 8 when the random fraction is short in base 36 (0.125 is "0.4i")
HostedBackupCodePool == { <<"K", "7", "Q", "2", "M", "9", "X", "1">>, <<"4", "I">> }

hostedQRCodeData(eventId, userId, now) == <<"r", "e", "g", "_", eventId, "_", userId, "_", now>>

roleOf(uid) == IF \E u \in hUsers : u.id = uid THEN (CHOOSE u \in hUsers : u.id = uid).role ELSE "none"

\* INSERT INTO public.registrations under its constraints and the policy
\* "Users can create own registrations"; error is "" when the row went in
insertRegistration(regs, row, uid) ==
  IF uid # row.user_id THEN [error |-> "rls", regs |-> regs]
  ELSE IF \/ \E r \in regs : r.qr_code_data = row.qr_code_data
          \/ \E r \in regs : r.backup_code = row.backup_code
          \/ \E r \in regs : r.event_id = row.event_id /\ r.user_id = row.user_id
    THEN [error |-> "unique_violation", regs |-> regs]
  ELSE [error |-> "", regs |-> regs \cup {row}]

\* the attendance table without UNIQUE(registration_id)
insertAttendance_NoUnique(atts, regs, row, role) ==
  IF role \notin {"admin", "staff"} THEN [error |-> "rls", atts |-> atts]
  ELSE IF ~\E r \in regs : r.id = row.registration_id THEN [error |-> "foreign_key_violation", atts |-> atts]
  ELSE [error |-> "", atts |-> atts \cup {row}]

\* INSERT INTO public.attendance under UNIQUE(registration_id), the foreign key
\* and the policy "Staff can create attendance records"
insertAttendance(atts, regs, row, role) ==
  IF role \notin {"admin", "staff"} THEN [error |-> "rls", atts |-> atts]
  ELSE IF ~\E r \in regs : r.id = row.registration_id THEN [error |-> "foreign_key_violation", atts |-> atts]
  ELSE IF \E a \in atts : a.registration_id = row.registration_id
    THEN [error |-> "unique_violation", atts |-> atts]
  ELSE [error |-> "", atts |-> atts \cup {row}]

\* SELECT on public.registrations as uid: policies "Users can view own
\* registrations" and "Staff can view all registrations"
visibleRegistrations(regs, uid, role) ==
  {r \in regs : r.user_id = uid \/ role \in {"admin", "staff"}}

\* SELECT on public.attendance as uid: policies "Staff can view attendance" and
\* "Users can view own attendance"
visibleAttendance(atts, regs, uid, role) ==
  {a \in atts : \/ role \in {"admin", "staff"}
                \/ \E r \in regs : r.id = a.registration_id /\ r.user_id = uid}

NoRow == [id |-> "", event_id |-> "", user_id |-> "", qr_code_data |-> <<>>, backup_code |-> <<>>]

\* the query of processCheckIn: the one visible row whose qr_code_data (method
\* qr_scan) or backup_code (method backup_code) equals the code, with its
\* visible attendance rows; .single() gives an error unless exactly one row matches
selectRegistration(regs, atts, uid, role, code, method) ==
  LET rows == {r \in visibleRegistrations(regs, uid, role) :
                 IF method = "qr_scan" THEN r.qr_code_data = code ELSE r.backup_code = code}
  IN IF Cardinality(rows) # 1 THEN [regError |-> TRUE, registration |-> NoRow, attendance |-> {}]
     ELSE LET row == CHOOSE r \in rows : TRUE
          IN [regError |-> FALSE, registration |-> row,
              attendance |-> {a \in visibleAttendance(atts, regs, uid, role) : a.registration_id = row.id}]

HMsgInvalid == "Invalid code or registration not found"
HMsgWrongEvent == "This code is not for the current event"
HMsgAlreadyCheckedIn == "is already checked in"
HMsgInsertFailed == "Failed to check in attendee"
HMsgSuccess == "checked in successfully!"

\* processCheckIn from its start to the first of its returns or to the insert
\* it issues: the message set (when it returned) and whether the insert is issued
processCheckInChecks(sel, eventId) ==
  IF sel.regError \/ sel.registration = NoRow THEN [message |-> HMsgInvalid, insert |-> FALSE]
  ELSE IF eventId # "" /\ sel.registration.event_id # eventId THEN [message |-> HMsgWrongEvent, insert |-> FALSE]
  ELSE IF Cardinality(sel.attendance) > 0 THEN [message |-> HMsgAlreadyCheckedIn, insert |-> FALSE]
  ELSE [message |-> "", insert |-> TRUE]

\* a run's local values while its insert is in flight
IdleRun == [user |-> "", method |-> "", registration_id |-> ""]

\* lastScanResult as a run sets it, with the insert's error ("" for none)
ScanResult(success, message, attendanceError) ==
  [NoOp EXCEPT !.op = "processCheckIn",
               !.type = IF success THEN "success" ELSE "error",
               !.text = <<message>>, !.threw = attendanceError]

localIdle == UNCHANGED <<currentUser, events, registrations, attendances, idCounter, userCounter>>

\* signUp and the trigger handle_new_user
HSignUp(account) ==
  /\ variant = "hosted"
  /\ MessageCleared
  /\ account \notin hUsers
  /\ hUsers' = hUsers \cup {account}
  /\ UNCHANGED lastOp
  /\ UNCHANGED <<hEvents, hRegistrations, hAttendance, pc, run>>
  /\ localIdle /\ listingIdle /\ supportIdle

\* createEvent under the policy "Admins can create events"
HCreateEvent(uid) ==
  /\ variant = "hosted"
  /\ MessageCleared
  /\ Cardinality(hEvents) < MaxHostedEvents
  /\ \E date \in EventDates :
       hEvents' = IF roleOf(uid) = "admin"
                    THEN hEvents \cup {[id |-> HostedEventIds[Cardinality(hEvents) + 1], event_date |-> date,
                                        created_by |-> uid]}
                    ELSE hEvents
  /\ UNCHANGED lastOp
  /\ UNCHANGED <<hUsers, hRegistrations, hAttendance, pc, run>>
  /\ localIdle /\ listingIdle /\ supportIdle

\* EventCard.handleRegister: registerForEvent resolves to {data, error} and does
\* not throw, so the success toast follows whatever the insert did
HRegister(uid, eventId, backupCode) ==
  /\ variant = "hosted"
  /\ MessageCleared
  /\ roleOf(uid) = "participant"
  /\ LET row == [id |-> <<"reg", eventId, uid>>, event_id |-> eventId, user_id |-> uid,
                 qr_code_data |-> hostedQRCodeData(eventId, uid, DateNow(Cardinality(hRegistrations))),
                 backup_code |-> backupCode]
         res == insertRegistration(hRegistrations, row, uid)
     IN /\ hRegistrations' = res.regs
        /\ lastOp' = [NoOp EXCEPT !.op = "hostedRegister", !.event = eventId, !.input = <<uid>>,
                                  !.threw = res.error, !.type = "success",
                                  !.text = <<"Successfully registered for event!">>]
  /\ UNCHANGED <<hUsers, hEvents, hAttendance, pc, run>>
  /\ localIdle /\ listingIdle /\ supportIdle

\* what reaches processCheckIn: a decoded QR text as it is (method qr_scan), or
\* the manual field, upper-cased as it is typed and trimmed (method backup_code)
HostedCodes ==
  UNION { { <<"qr_scan", r.qr_code_data>>,
            <<"backup_code", trim(toUpperCase(MixedCase(r.backup_code) \o <<" ">>))>> } : r \in hRegistrations }
  \cup { <<"qr_scan", UnknownCode>>, <<"backup_code", UnknownCode>> }

\* onScanSuccess / handleManualCheckIn up to the point where processCheckIn
\* returns or has issued its insert
HScan(p, uid, eventId, method, code) ==
  /\ variant = "hosted"
  /\ MessageCleared
  /\ pc[p] = "idle"
  /\ \A q \in Scanners : q < p => pc[q] # "idle"      \* idle runs are interchangeable: the lowest starts
  /\ LET sel == selectRegistration(hRegistrations, hAttendance, uid, roleOf(uid), code, method)
         chk == processCheckInChecks(sel, eventId)
     IN /\ run' = [run EXCEPT ![p] = IF chk.insert
                                       THEN [user |-> uid, method |-> method,
                                             registration_id |-> sel.registration.id]
                                       ELSE IdleRun]
        /\ pc' = [pc EXCEPT ![p] = IF chk.insert THEN "insert" ELSE "idle"]
        /\ lastOp' = IF chk.insert THEN lastOp
                      ELSE ScanResult(FALSE, chk.message, "")
  /\ UNCHANGED <<hUsers, hEvents, hRegistrations, hAttendance>>
  /\ localIdle /\ listingIdle /\ supportIdle

\* the insert of processCheckIn reaching the database, and the rest of the function
HInsert(p) ==
  /\ variant = "hosted"
  /\ MessageCleared
  /\ pc[p] = "insert"
  /\ LET row == [id |-> Cardinality(hAttendance) + 1, registration_id |-> run[p].registration_id,
                 check_in_method |-> run[p].method, checked_in_by |-> run[p].user]
         res == insertAttendance(hAttendance, hRegistrations, row, roleOf(run[p].user))
     IN /\ hAttendance' = res.atts
        /\ lastOp' = IF res.error # ""
                        THEN ScanResult(FALSE, HMsgInsertFailed, res.error)
                        ELSE ScanResult(TRUE, HMsgSuccess, "")
  /\ run' = [run EXCEPT ![p] = IdleRun]
  /\ pc' = [pc EXCEPT ![p] = "idle"]
  /\ UNCHANGED <<hUsers, hEvents, hRegistrations>>
  /\ localIdle /\ listingIdle /\ supportIdle

HostedUids == {u.id : u \in hUsers}
HostedEvents == {e.id : e \in hEvents}

HostedInit ==
  /\ hUsers = {}
  /\ hEvents = {}
  /\ hRegistrations = {}
  /\ hAttendance = {}
  /\ pc = [p \in Scanners |-> "idle"]
  /\ run = [p \in Scanners |-> IdleRun]

HostedNext ==
  \/ \E account \in HostedAccounts : HSignUp(account)
  \/ \E uid \in HostedUids : HCreateEvent(uid)
  \/ \E uid \in HostedUids, eventId \in HostedEvents, backupCode \in HostedBackupCodePool :
       HRegister(uid, eventId, backupCode)
  \/ \E p \in Scanners, uid \in HostedUids, eventId \in HostedEvents \cup {""}, mc \in HostedCodes :
       HScan(p, uid, eventId, mc[1], mc[2])
  \/ \E p \in Scanners : HInsert(p)

(***************************************************************************)
(* pages/Index: the event listing                                          *)
(***************************************************************************)
HoursPerDay == 24
MaxDay == 3              \* event dates and the current day range over 0..MaxDay
MaxListed == 2           \* events stored when the listing loads

\* new Date(event.event_date): a date-only string is read as midnight UTC of that day
eventInstant(eventDate) == eventDate * HoursPerDay

\* the viewer's calendar date at instant now, in a zone offset hours ahead of UTC
localDay(now, offset) == (now + offset) \div HoursPerDay

\* today = new Date(); today.setHours(0, 0, 0, 0): midnight, local time, of the viewer's day
localMidnight(now, offset) == localDay(now, offset) * HoursPerDay - offset

\* the filter of Index's useEffect
upcomingEvents(evs, now, offset) ==
  Filter(evs, LAMBDA event : eventInstant(event.event_date) >= localMidnight(now, offset))

ListedEvent(i, date) == [id |-> IdTokens[i], event_date |-> date, max_capacity |-> 1, created_by |-> "u1"]

TzOffsets == (0 - 12)..14

\* Index mounts: useEffect reads the events and filters them
IndexLoad ==
  /\ variant = "local"
  /\ lastOp.op = "none"
  /\ shownEvents' = upcomingEvents(events, clock, tzOffset)
  /\ lastOp' = [NoOp EXCEPT !.op = "indexLoad"]
  /\ UNCHANGED <<variant, clock, tzOffset>>
  /\ localIdle /\ hostedIdle /\ supportIdle

\* Dashboard mounts: loadEvents shows what getEvents returns
DashboardLoad ==
  /\ variant = "local"
  /\ lastOp.op = "none"
  /\ shownEvents' = events
  /\ lastOp' = [NoOp EXCEPT !.op = "dashboardLoad"]
  /\ UNCHANGED <<variant, clock, tzOffset>>
  /\ localIdle /\ hostedIdle /\ supportIdle

\* Scanner mounts for a user its gate lets in: loadEvents shows what getEvents returns
ScannerLoad ==
  /\ variant = "local"
  /\ lastOp.op = "none"
  /\ ~scannerAccessDenied(currentUser)
  /\ shownEvents' = events
  /\ lastOp' = [NoOp EXCEPT !.op = "scannerLoad"]
  /\ UNCHANGED <<variant, clock, tzOffset>>
  /\ localIdle /\ hostedIdle /\ supportIdle

\* lib/supabase getEvents: .order('event_date', { ascending: true }); rows of the
\* same date come in an order the query does not fix
HostedGetEvents ==
  /\ variant = "hosted"
  /\ lastOp.op = "none"
  /\ \E rows \in [1..Cardinality(hEvents) -> hEvents] :
       /\ \A i, j \in DOMAIN rows : i # j => rows[i] # rows[j]
       /\ \A i, j \in DOMAIN rows : i < j => rows[i].event_date <= rows[j].event_date
       /\ shownEvents' = rows
  /\ lastOp' = [NoOp EXCEPT !.op = "hostedGetEvents"]
  /\ UNCHANGED <<variant, clock, tzOffset>>
  /\ localIdle /\ hostedIdle /\ supportIdle

ListingLoads == {"indexLoad", "dashboardLoad", "scannerLoad", "hostedGetEvents"}

\* the page is left again
IndexUnmount ==
  /\ lastOp.op \in ListingLoads
  /\ shownEvents' = <<>>
  /\ lastOp' = NoOp
  /\ UNCHANGED <<variant, clock, tzOffset>>
  /\ localIdle /\ hostedIdle /\ supportIdle

SupportInit ==
  /\ supportMessages = <<>>
  /\ chatMounted = FALSE
  /\ chatEventId = ""
  /\ shownMessages = <<>>

ListingInit ==
  /\ clock = 0
  /\ tzOffset = 0
  /\ shownEvents = <<>>

Init ==
  /\ variant \in {"local", "hosted"}
  /\ LocalInit /\ HostedInit /\ ListingInit /\ SupportInit

\* the first step of the next handler: the message of the last operation goes
ClearMessage ==
  /\ lastOp # NoOp
  /\ lastOp' = NoOp
  /\ UNCHANGED <<variant, currentUser, events, registrations, attendances, idCounter, userCounter,
                 hUsers, hEvents, hRegistrations, hAttendance, pc, run, clock, tzOffset, shownEvents,
                 supportMessages, chatMounted, chatEventId, shownMessages>>

Next == LocalNext \/ HostedNext \/ ClearMessage

Spec == Init /\ [][Next]_vars

\* the stored events a listing can find: any dates, in any order of creation
ListedEventSeqs ==
  UNION { {evs \in [1..n -> {ListedEvent(i, d) : i \in 1..MaxListed, d \in 0..MaxDay}] :
             \A i \in 1..n : evs[i].id = IdTokens[i]} : n \in 1..MaxListed }

\* the listings on their own: any stored events, any viewer, any instant, any
\* viewer zone (the hosted query looks at neither the clock nor the viewer)
InitListing ==
  /\ registrations = <<>> /\ attendances = <<>>
  /\ idCounter = 0 /\ userCounter = 0 /\ lastOp = NoOp
  /\ hUsers = {} /\ hRegistrations = {} /\ hAttendance = {}
  /\ pc = [p \in Scanners |-> "idle"]
  /\ run = [p \in Scanners |-> IdleRun]
  /\ shownEvents = <<>>
  /\ SupportInit
  /\ \E evs \in ListedEventSeqs :
       \/ /\ variant = "local"
          /\ events = evs
          /\ hEvents = {}
          /\ currentUser \in {StoredSession(role) : role \in Roles}
          /\ clock \in (HoursPerDay)..(HoursPerDay * MaxDay - 1)
          /\ tzOffset \in TzOffsets
       \/ /\ variant = "hosted"
          /\ events = <<>>
          /\ hEvents = {[id |-> HostedEventIds[i], event_date |-> evs[i].event_date, created_by |-> "Ua"] :
                          i \in 1..Len(evs)}
          /\ currentUser = NoUser
          /\ clock = HoursPerDay
          /\ tzOffset = 0

NextListing == IndexLoad \/ DashboardLoad \/ ScannerLoad \/ HostedGetEvents \/ IndexUnmount

SpecListing == InitListing /\ [][NextListing]_vars

(***************************************************************************)
(* lib/auth on its own: signIn called with any arguments, with or without  *)
(* a session already stored                                                *)
(***************************************************************************)
\* signIn(email, password, role, fullName): localStorage.setItem only on its last path
SignInCall(email, password, role, fullName) ==
  /\ MessageCleared
  /\ userCounter < MaxUsers
  /\ LET result == signIn(email, password, role, fullName, userCounter)
     IN /\ currentUser' = IF result.success THEN getCurrentUser(JSONStringifyUser(result.user))
                                             ELSE currentUser
        /\ userCounter' = IF result.success THEN userCounter + 1 ELSE userCounter
        /\ lastOp' = [NoOp EXCEPT !.op = "signIn", !.input = <<email, <<password>>, <<role>>, fullName>>,
                                  !.threw = result.error,
                                  !.type = IF result.success THEN "success" ELSE "error"]
  /\ UNCHANGED <<events, registrations, attendances, idCounter>>
  /\ hostedIdle /\ listingIdle /\ supportIdle

\* signOut(): localStorage.removeItem, with or without a session stored
SignOutCall ==
  /\ MessageCleared
  /\ currentUser' = getCurrentUser(NoItem)
  /\ lastOp' = [NoOp EXCEPT !.op = "signOut"]
  /\ UNCHANGED <<events, registrations, attendances, idCounter, userCounter>>
  /\ hostedIdle /\ listingIdle /\ supportIdle

InitSignIn ==
  /\ variant = "local"
  /\ currentUser \in {NoUser} \cup {StoredSession(role) : role \in Roles}
  /\ events = <<>> /\ registrations = <<>> /\ attendances = <<>>
  /\ idCounter = 0 /\ userCounter = 0 /\ lastOp = NoOp
  /\ HostedInit /\ ListingInit /\ SupportInit

NextSignIn ==
  \/ \E email \in EmailInputs, password \in PasswordInputs, role \in Roles, fullName \in NameInputs :
       SignInCall(email, password, role, fullName)
  \/ SignOutCall
  \/ ClearMessage

SpecSignIn == InitSignIn /\ [][NextSignIn]_vars

(***************************************************************************)
(* The support chat next to the store operations, started from a store    *)
(* that earlier sessions have left behind                                  *)
(***************************************************************************)
\* users of earlier sessions
EarlierParticipant == [id |-> "u4", email |-> <<"cy", "@", "nmamit.in">>, full_name |-> <<"Cy">>, role |-> "participant"]

\* stores earlier sessions can have left: nothing; an event with a registration;
\* the same with the registration checked in
StoreEmpty == [events |-> <<>>, registrations |-> <<>>, attendances |-> <<>>, ids |-> 0]
StoreRegistered ==
  LET evs == createEvent(<<>>, [event_date |-> 1, max_capacity |-> 1, created_by |-> StoredSession("admin").id], 0)
      regs == registerForEvent(<<>>, generateId(0), EarlierParticipant.id, EarlierParticipant.full_name,
                               EarlierParticipant.email, 1, CHOOSE code \in generateBackupCode : TRUE).regs
  IN [events |-> evs, registrations |-> regs, attendances |-> <<>>, ids |-> Len(evs) + Len(regs)]
StoreCheckedIn ==
  [StoreRegistered EXCEPT !.attendances = checkInAttendee(StoreRegistered.registrations, <<>>,
                                             StoreRegistered.registrations[1].id, "qr_scan",
                                             StoredSession("staff").id, StoreRegistered.ids).atts,
                          !.ids = StoreRegistered.ids + 1]
EarlierStores == {StoreEmpty, StoreRegistered, StoreCheckedIn}

\* the support messages earlier sessions can have left on top of a store with n
\* ids: none, or one message of the earlier participant or of the stored
\* session's user, general or for the first event, open or resolved
EarlierMessages(n) ==
  {<<>>} \cup
  UNION { { createSupportMessage(<<>>, eventId, userId, <<"Cy">>, <<"cy", "@", "nmamit.in">>,
                                 <<"[", "Other", "] ", "h", "e", "l", "p">>, n),
            resolveSupportMessage(
              createSupportMessage(<<>>, eventId, userId, <<"Cy">>, <<"cy", "@", "nmamit.in">>,
                                   <<"[", "Other", "] ", "h", "e", "l", "p">>, n),
              generateId(n), StoredSession("admin").id, DateNow(n + 1)).msgs } :
          eventId \in {"general", generateId(0)}, userId \in {EarlierParticipant.id, StoredSession("admin").id} }

\* the eventId prop a SupportChat can be given: none, or the id of an event
ChatEventIds == {""} \cup EventIds

InitSupport ==
  /\ variant = "local"
  /\ currentUser \in {StoredSession(role) : role \in Roles}
  /\ userCounter = 0
  /\ lastOp = NoOp
  /\ \E store \in EarlierStores :
       /\ events = store.events
       /\ registrations = store.registrations
       /\ attendances = store.attendances
       /\ \E msgs \in EarlierMessages(store.ids) :
            /\ store.ids + Len(msgs) <= MaxIds
            /\ supportMessages = msgs
            /\ idCounter = store.ids + Len(msgs)
  /\ chatMounted = FALSE /\ chatEventId = "" /\ shownMessages = <<>>
  /\ HostedInit /\ ListingInit

NextSupport ==
  \/ \E eventId \in ChatEventIds : ChatMount(eventId)
  \/ ChatUnmount
  \/ \E issueType \in IssueTypes, message \in MessageInputs : HandleSubmitMessage(issueType, message)
  \/ \E messageId \in MessageIds : HandleResolveMessage(messageId)
  \/ \E date \in EventDates, capacity \in CapacityInputs : HandleCreateEvent(date, capacity)
  \/ \E eventId \in EventIds : HandleOneClickRegister(eventId)
  \/ \E registrationId \in KnownRegistrationIds : HandleDeleteRegistration(registrationId)
  \/ \E registrationId \in KnownRegistrationIds, method \in {"qr_scan", "backup_code"} :
       CheckInAttendee(registrationId, method)
  \/ ClearMessage

SpecSupport == InitSupport /\ [][NextSupport]_vars

(***************************************************************************)
(* The Scanner page with two handleScan invocations in one tab             *)
(***************************************************************************)
\* handleScan is an async function with one await, on the value checkInAttendee
\* has returned: an invocation runs from its start through the lookups, the
\* checks and the call of checkInAttendee without yielding, and yields only
\* then. pc[p] is "idle" before invocation p starts, "await" while it is
\* suspended at the await, "done" after its last statement. run[p] holds its
\* arguments, the registration it found, whether checkInAttendee returned,
\* the message it has set (<<>> for none) and the message its continuation sets.
ScanLocals(selectedEventId, scanInput, res) ==
  LET returned == res.called /\ res.type = "success"
  IN [event |-> selectedEventId, input |-> scanInput, reg |-> res.reg, checkedIn |-> returned,
      message |-> IF returned THEN <<>> ELSE res.text,
      continuation |-> IF returned THEN res.text ELSE <<>>]

\* handleScan from its start to its await or, on one of the earlier returns or
\* in the catch block, to its end
HandleScanStart(p, selectedEventId, scanInput) ==
  /\ variant = "local"
  /\ ~chatMounted
  /\ currentUser # NoUser
  /\ ~scannerAccessDenied(currentUser)
  /\ pc[p] = "idle"
  /\ \A q \in Scanners : q < p => pc[q] # "idle"      \* invocations start in the order of their numbers
  /\ LET res == handleScan(registrations, attendances, selectedEventId, scanInput, currentUser, idCounter)
         locals == ScanLocals(selectedEventId, scanInput, res)
     IN /\ locals.checkedIn => idCounter < MaxIds
        /\ attendances' = res.atts
        /\ idCounter' = IF locals.checkedIn THEN idCounter + 1 ELSE idCounter
        /\ pc' = [pc EXCEPT ![p] = IF locals.checkedIn THEN "await" ELSE "done"]
        /\ run' = [run EXCEPT ![p] = locals]
  /\ UNCHANGED <<currentUser, events, registrations, userCounter, lastOp>>
  /\ UNCHANGED <<hUsers, hEvents, hRegistrations, hAttendance>>
  /\ listingIdle /\ supportIdle

\* the rest of handleScan after the await: the success message
HandleScanResume(p) ==
  /\ variant = "local"
  /\ pc[p] = "await"
  /\ pc' = [pc EXCEPT ![p] = "done"]
  /\ run' = [run EXCEPT ![p].message = run[p].continuation]
  /\ UNCHANGED lastOp
  /\ UNCHANGED <<hUsers, hEvents, hRegistrations, hAttendance>>
  /\ localIdle /\ listingIdle /\ supportIdle

InitScan ==
  /\ variant = "local"
  /\ currentUser \in {StoredSession(role) : role \in {"staff", "admin"}}
  /\ userCounter = 0
  /\ lastOp = NoOp
  /\ \E store \in EarlierStores :
       /\ events = store.events
       /\ registrations = store.registrations
       /\ attendances = store.attendances
       /\ idCounter = store.ids
  /\ SupportInit
  /\ HostedInit /\ ListingInit

NextScan ==
  \/ \E p \in Scanners, in \in ScannerInputs : HandleScanStart(p, in[1], in[2])
  \/ \E p \in Scanners : HandleScanResume(p)

SpecScan == InitScan /\ [][NextScan]_vars

(***************************************************************************)
(* Properties                                                              *)
(***************************************************************************)
\* C1: in every reachable state of the local store no two stored registrations
\* have the same (event_id, user_id) pair.
C1_OneRegistrationPerPair ==
  \A i, j \in 1..Len(registrations) :
    (registrations[i].event_id = registrations[j].event_id
       /\ registrations[i].user_id = registrations[j].user_id) => i = j

\* two users registered for one event, the second registration just stored
C1_Witness ==
  /\ lastOp.op = "registerForEvent" /\ lastOp.threw = ""
  /\ \E i, j \in 1..Len(registrations) :
       i # j /\ registrations[i].event_id = registrations[j].event_id

\* C2: in every reachable state of the local store each registration id is
\* referenced by at most one stored attendance record.
C2_OneAttendancePerRegistration ==
  \A i, j \in 1..Len(attendances) :
    attendances[i].registration_id = attendances[j].registration_id => i = j

\* a second check-in of a checked-in registration has just been refused
C2_Witness ==
  /\ lastOp.op = "checkInAttendee" /\ lastOp.threw = "Already checked in"
  /\ \E i \in 1..Len(attendances) : attendances[i].registration_id = lastOp.reg

\* C3: a registerForEvent call for an (event, user) pair that already holds a
\* registration fails with 'Already registered for this event' and leaves the
\* stored registrations as they were.
C3_DuplicateRegistrationRejected ==
  [][ (/\ lastOp'.op = "registerForEvent"
       /\ \E i \in 1..Len(registrations) :
            /\ registrations[i].event_id = lastOp'.event
            /\ registrations[i].user_id = lastOp'.input[1])
      => (lastOp'.threw = "Already registered for this event" /\ registrations' = registrations) ]_vars

\* a duplicate registration has just been refused
C3_Witness ==
  /\ lastOp.op = "registerForEvent"
  /\ lastOp.threw = "Already registered for this event"
  /\ \E i \in 1..Len(registrations) :
       registrations[i].event_id = lastOp.event /\ registrations[i].user_id = lastOp.input[1]

\* the registration handleScan matches to what was entered, in the state before the scan
Matched(scanInput) == scanLookup(registrations, scanInput)

\* C4: when handleScan is given a code that matches a registration of the
\* selected event which already has an attendance record, it reports
\* '<attendee name> is already checked in', does not call checkInAttendee and
\* leaves the attendance store unchanged.
C4_ScanAlreadyCheckedIn ==
  [][ (/\ lastOp'.op = "handleScan"
       /\ Matched(lastOp'.input) # 0
       /\ registrations[Matched(lastOp'.input)].event_id = lastOp'.event
       /\ \E i \in 1..Len(attendances) :
            attendances[i].registration_id = registrations[Matched(lastOp'.input)].id)
      => (/\ lastOp'.type = "error"
          /\ lastOp'.text = registrations[Matched(lastOp'.input)].user_name \o <<" is already checked in">>
          /\ ~lastOp'.called
          /\ attendances' = attendances) ]_vars

\* a scan of a checked-in attendee's code has just been answered
C4_Witness ==
  /\ lastOp.op = "handleScan"
  /\ \E i \in 1..Len(registrations) :
       /\ registrations[i].id = lastOp.reg
       /\ registrations[i].event_id = lastOp.event
       /\ lastOp.text = registrations[i].user_name \o <<" is already checked in">>
       /\ \E k \in 1..Len(attendances) : attendances[k].registration_id = registrations[i].id

\* C5: when the code matches a registration whose event differs from the
\* selected event, check-in fails with the wrong-event message and no
\* attendance record is created: in handleScan (local) and in processCheckIn
\* (hosted, where the run ends without issuing its insert).
C5_WrongEventRejected ==
  [][ /\ (/\ lastOp'.op = "handleScan"
          /\ lastOp'.event # ""
          /\ Matched(lastOp'.input) # 0
          /\ registrations[Matched(lastOp'.input)].event_id # lastOp'.event)
         => (/\ lastOp'.type = "error"
             /\ lastOp'.text = <<"This registration is not for the selected event">>
             /\ attendances' = attendances)
      /\ variant = "hosted" =>
         \A p \in Scanners, uid \in HostedUids, eventId \in HostedEvents, mc \in HostedCodes :
           (/\ HScan(p, uid, eventId, mc[1], mc[2])
            /\ \E r \in visibleRegistrations(hRegistrations, uid, roleOf(uid)) :
                 /\ IF mc[1] = "qr_scan" THEN r.qr_code_data = mc[2] ELSE r.backup_code = mc[2]
                 /\ r.event_id # eventId)
           => (/\ lastOp'.type = "error"
               /\ lastOp'.text = <<"This code is not for the current event">>
               /\ pc'[p] = "idle"
               /\ hAttendance' = hAttendance) ]_vars

\* a hosted run has just been refused for the wrong event while a registration
\* of another event is stored
C5_Witness ==
  /\ variant = "hosted"
  /\ lastOp.op = "processCheckIn"
  /\ lastOp.text = <<"This code is not for the current event">>
  /\ hRegistrations # {}

\* C6 as stated: when what is entered equals no stored QR payload and, upper-cased,
\* no stored backup code, handleScan answers 'Invalid QR code or backup code'
\* and the attendance store is unchanged.
C6_Original ==
  [][ (/\ lastOp'.op = "handleScan"
       /\ \A i \in 1..Len(registrations) :
            /\ registrations[i].qr_code_data # lastOp'.input
            /\ registrations[i].backup_code # toUpperCase(lastOp'.input))
      => (lastOp'.text = <<"Invalid QR code or backup code">> /\ attendances' = attendances) ]_vars

\* C6: when an event is selected and what is entered is not blank and, with the
\* surrounding blanks removed, equals no stored QR payload and, upper-cased, no
\* stored backup code, handleScan answers 'Invalid QR code or backup code' and
\* the attendance store is unchanged.
C6_InvalidCodeRejected ==
  [][ (/\ lastOp'.op = "handleScan"
       /\ lastOp'.event # ""
       /\ trim(lastOp'.input) # <<>>
       /\ \A i \in 1..Len(registrations) :
            /\ registrations[i].qr_code_data # trim(lastOp'.input)
            /\ registrations[i].backup_code # toUpperCase(trim(lastOp'.input)))
      => (/\ lastOp'.type = "error"
          /\ lastOp'.text = <<"Invalid QR code or backup code">>
          /\ ~lastOp'.called
          /\ attendances' = attendances) ]_vars

\* an unknown code has just been refused while registrations are stored
C6_Witness ==
  /\ lastOp.op = "handleScan"
  /\ lastOp.text = <<"Invalid QR code or backup code">>
  /\ lastOp.input = UnknownCode
  /\ registrations # <<>>

C8_RaceRejectedByUnique ==
  /\ [](\A a, b \in hAttendance : a.registration_id = b.registration_id => a = b)
  /\ [][ \A p \in Scanners :
           (/\ pc[p] = "insert" /\ pc'[p] = "idle"
            /\ \E a \in hAttendance : a.registration_id = run[p].registration_id)
           => (/\ lastOp'.type = "error"
               /\ lastOp'.text = <<"Failed to check in attendee">>
               /\ hAttendance' = hAttendance) ]_vars

\* the insert of the slower of two interleaved runs has just been turned down by
\* the uniqueness constraint
C8_Witness ==
  /\ variant = "hosted"
  /\ lastOp.op = "processCheckIn"
  /\ lastOp.threw = "unique_violation"
  /\ lastOp.text = <<"Failed to check in attendee">>
  /\ hAttendance # {}

\* C9: the Index listing contains an event exactly when its calendar date is
\* the viewer's today or later, for every event date, instant and zone offset.
C9_ListingFromToday ==
  lastOp.op = "indexLoad"
    => \A i \in 1..Len(events) :
         (\E k \in 1..Len(shownEvents) : shownEvents[k] = events[i])
           <=> events[i].event_date >= localDay(clock, tzOffset)

\* C10: handleScan looks the code up by QR payload first and only then by backup
\* code, and every stored registration is checked in by any upper/lower-case
\* variant of its backup code entered for its event.
C10_BackupCodeAnyCase ==
  [][ lastOp'.op = "handleScan"
      => /\ (\E i \in 1..Len(registrations) : registrations[i].qr_code_data = trim(lastOp'.input))
              => /\ Matched(lastOp'.input) # 0
                 /\ registrations[Matched(lastOp'.input)].qr_code_data = trim(lastOp'.input)
         /\ \A i \in 1..Len(registrations) :
              (/\ toUpperCase(trim(lastOp'.input)) = registrations[i].backup_code
               /\ lastOp'.event = registrations[i].event_id)
              => \E k \in 1..Len(attendances') : attendances'[k].registration_id = registrations[i].id ]_vars

\* C11: the attendance record a handleScan step stores carries check_in_method
\* qr_scan when the input, trimmed, is the QR payload of the registration found
\* and backup_code when the registration was found by its backup code, and it
\* carries the id of the user who scans as staff_id.
C11_MethodFollowsLookup ==
  [][ (lastOp'.op = "handleScan" /\ Len(attendances') = Len(attendances) + 1)
      => LET att == attendances'[Len(attendances')]
         IN /\ att.staff_id = currentUser.id
            /\ att.check_in_method =
                 IF findRegistrationByQR(registrations, trim(lastOp'.input)) # 0
                   THEN "qr_scan" ELSE "backup_code" ]_vars

\* C12: a registration attempt for an (event, user) pair that is already stored
\* ends with an error message and not with a success message, in the local
\* EventDetails flow and in the hosted EventCard flow.
C12_DuplicateShowsError ==
  [][ (\/ /\ lastOp'.op = "registerForEvent"
          /\ \E i \in 1..Len(registrations) :
               registrations[i].event_id = lastOp'.event /\ <<registrations[i].user_id>> = lastOp'.input
       \/ /\ lastOp'.op = "hostedRegister"
          /\ \E r \in hRegistrations : r.event_id = lastOp'.event /\ <<r.user_id>> = lastOp'.input)
      => lastOp'.type = "error" ]_vars

\* C13: a signIn call with role admin or staff succeeds only when the password
\* is the role's static password; with any other password it returns
\* success = false and the stored session is what it was before the call.
C13_StaffPasswordRequired ==
  [][ (lastOp'.op = "signIn" /\ lastOp'.input[3] \in {<<"admin">>, <<"staff">>})
      => LET expected == IF lastOp'.input[3] = <<"admin">> THEN ADMIN_PASSWORD ELSE STAFF_PASSWORD
         IN /\ lastOp'.type = "success" => lastOp'.input[2] = <<expected>>
            /\ lastOp'.input[2] # <<expected>>
                 => lastOp'.type = "error" /\ currentUser' = currentUser ]_vars

C13_Witness ==
  /\ lastOp.op = "signIn"
  /\ lastOp.input[3] = <<"staff">>
  /\ lastOp.input[2] = <<"0000">>
  /\ lastOp.input[1] = <<"ann", "@", "nmamit.in">>
  /\ lastOp.type = "error"
  /\ currentUser = StoredSession("participant")

\* C14: a signIn call with any role fails and leaves the stored session as it
\* was when the email is empty, has no "@" or does not end with "@nmamit.in";
\* with role participant it also fails when the full name is empty, and with a
\* valid email and a name it succeeds whatever the password.
C14_EmailAndNameRequired ==
  [][ lastOp'.op = "signIn"
      => LET email == lastOp'.input[1]
             role == lastOp'.input[3]
             fullName == lastOp'.input[4]
             badEmail == email = <<>> \/ ~includesAt(email) \/ ~endsWithDomain(email)
         IN /\ badEmail => lastOp'.type = "error" /\ currentUser' = currentUser
            /\ (role = <<"participant">> /\ fullName = <<>>)
                 => lastOp'.type = "error" /\ currentUser' = currentUser
            /\ (role = <<"participant">> /\ ~badEmail /\ fullName # <<>>)
                 => /\ lastOp'.type = "success"
                    /\ currentUser'.role = "participant" /\ currentUser'.email = email ]_vars

C14_Witness ==
  /\ lastOp.op = "signIn"
  /\ lastOp.input[1] = <<"ann", "@", "gmail.com">>
  /\ lastOp.input[3] = <<"admin">>
  /\ lastOp.input[2] = <<ADMIN_PASSWORD>>
  /\ lastOp.type = "error"
  /\ currentUser = NoUser

\* C15: only a session whose role is admin stores an Event or reaches
\* deleteRegistration: every step that adds an event to the store, and every
\* deleteRegistration step, is taken by an admin.
C15_AdminOnlyDashboard ==
  [][ (Len(events') > Len(events) \/ lastOp'.op \in {"createEvent", "deleteRegistration"})
      => currentUser.role = "admin" ]_vars

\* C16: every attendance record is stored by a session whose role is staff or
\* admin (local store and hosted table alike), and a participant who opens the
\* Scanner gets "Access denied" and no check-in.
C16_CheckInByStaffOrAdmin ==
  [][ /\ Len(attendances') > Len(attendances)
           => /\ currentUser.role \in {"staff", "admin"}
              /\ attendances'[Len(attendances')].staff_id = currentUser.id
      /\ \A a \in hAttendance' \ hAttendance : roleOf(a.checked_in_by) \in {"staff", "admin"}
      /\ (lastOp'.op \in {"openScanner", "handleScan", "checkInAttendee"} /\ currentUser.role = "participant")
           => /\ lastOp'.text = MsgAccessDenied
              /\ attendances' = attendances ]_vars

C16_Witness ==
  /\ lastOp.op = "openScanner"
  /\ lastOp.text = MsgAccessDenied
  /\ currentUser.role = "participant"
  /\ \E i \in 1..Len(registrations) : registrations[i].user_id = currentUser.id
  /\ attendances = <<>>

\* C17: no two stored registrations share a backup code and no two share a QR
\* payload.
C17_CodesIdentifyOne ==
  /\ \A i, j \in 1..Len(registrations) :
       i # j => /\ registrations[i].backup_code # registrations[j].backup_code
                /\ registrations[i].qr_code_data # registrations[j].qr_code_data
  /\ \A r1, r2 \in hRegistrations :
       r1 # r2 => /\ r1.backup_code # r2.backup_code
                  /\ r1.qr_code_data # r2.qr_code_data

\* C18: every backup code stored with a registration, in the local store and in
\* the hosted table, is 8 characters long and made of A-Z and 0-9 only.
C18_BackupCodeShape ==
  /\ \A i \in 1..Len(registrations) :
       /\ Len(registrations[i].backup_code) = BackupCodeLength
       /\ Range(registrations[i].backup_code) \subseteq BackupCodeChars
  /\ \A r \in hRegistrations :
       /\ Len(r.backup_code) = BackupCodeLength
       /\ Range(r.backup_code) \subseteq BackupCodeChars

\* C19: a listing shown to an admin or staff user (Index, Dashboard, Scanner)
\* contains every stored event, events dated before today included.
C19_StaffSeeAllEvents ==
  (lastOp.op \in {"indexLoad", "dashboardLoad", "scannerLoad"} /\ currentUser.role \in {"admin", "staff"})
    => \A i \in 1..Len(events) : \E k \in 1..Len(shownEvents) : shownEvents[k] = events[i]

\* C20: every event listing is in ascending order of event date: of two events
\* shown, the one with the earlier event_date comes first.
C20_ListingByDateAscending ==
  lastOp.op \in ListingLoads
    => \A i, j \in 1..Len(shownEvents) :
         shownEvents[i].event_date < shownEvents[j].event_date => i < j

\* C21: the list a SupportChat shows to a participant holds only messages whose
\* user_id is the participant's id; the list it shows to an admin holds every
\* stored message (of the given event, when an event id is given); and with an
\* event id given every message shown is one of that event.
C21_ChatListScoped ==
  chatMounted
    => /\ currentUser.role = "participant"
            => \A k \in 1..Len(shownMessages) : shownMessages[k].user_id = currentUser.id
       /\ currentUser.role = "admin"
            => Range(shownMessages) =
                 {m \in Range(supportMessages) : chatEventId = "" \/ m.event_id = chatEventId}
       /\ chatEventId # ""
            => \A k \in 1..Len(shownMessages) : shownMessages[k].event_id = chatEventId

\* a participant has the chat open and sees the message just sent, while the
\* message another user has stored is not on the list
C21_Witness ==
  /\ chatMounted
  /\ currentUser.role = "participant"
  /\ lastOp.op = "submitMessage" /\ lastOp.type = "success"
  /\ Len(shownMessages) = 1
  /\ \E i \in 1..Len(supportMessages) : supportMessages[i].user_id # currentUser.id

\* C22: a support message is stored with status open and without resolved_at
\* and resolved_by; resolving sets status resolved, resolved_at and resolved_by
\* together; a resolved message stays resolved; so at all times a message is
\* resolved exactly when resolved_at and resolved_by are set.
C22_ResolveIsOneWay ==
  /\ [](\A i \in 1..Len(supportMessages) :
          /\ supportMessages[i].status \in {"open", "resolved"}
          /\ supportMessages[i].status = "resolved"
               <=> (supportMessages[i].resolved_at # NoValue /\ supportMessages[i].resolved_by # NoValue)
          /\ supportMessages[i].status = "open"
               => (supportMessages[i].resolved_at = NoValue /\ supportMessages[i].resolved_by = NoValue))
  /\ [][ /\ Len(supportMessages') >= Len(supportMessages)
         /\ \A i \in 1..Len(supportMessages) :
              /\ supportMessages'[i].id = supportMessages[i].id
              /\ supportMessages[i].status = "resolved" => supportMessages'[i].status = "resolved"
         /\ \A i \in (Len(supportMessages) + 1)..Len(supportMessages') :
              supportMessages'[i].status = "open"
         /\ (lastOp'.op = "resolveMessage" /\ lastOp'.type = "success")
              => \E i \in 1..Len(supportMessages') :
                   /\ supportMessages'[i].id = lastOp'.reg
                   /\ supportMessages'[i].status = "resolved"
                   /\ supportMessages'[i].resolved_by = currentUser.id ]_vars

\* an admin has just resolved a message that was open
C22_Witness ==
  /\ lastOp.op = "resolveMessage"
  /\ lastOp.type = "success"
  /\ \E i \in 1..Len(supportMessages) :
       /\ supportMessages[i].id = lastOp.reg
       /\ supportMessages[i].status = "resolved"
       /\ supportMessages[i].resolved_by = currentUser.id

\* C23: the check-in checks run in the order invalid code, wrong event, already
\* checked in: a code that matches nothing is answered as invalid; a code
\* whose registration is of another event than the selected one is answered as
\* wrong-event also when that registration has an attendance record, never as
\* already-checked-in; and already-checked-in is answered only for a
\* registration of the selected event. In handleScan (local) and in
\* processCheckIn (hosted).
C23_CheckOrder ==
  [][ /\ (/\ lastOp'.op = "handleScan"
          /\ lastOp'.event # ""
          /\ trim(lastOp'.input) # <<>>)
         => LET idx == Matched(lastOp'.input)
            IN /\ idx = 0 => lastOp'.text = MsgInvalidCode
               /\ (idx # 0 /\ registrations[idx].event_id # lastOp'.event)
                    => lastOp'.text = MsgWrongEvent
               /\ (idx # 0 /\ lastOp'.text = MsgAlreadyCheckedIn(registrations[idx].user_name))
                    => /\ registrations[idx].event_id = lastOp'.event
                       /\ \E k \in 1..Len(attendances) :
                            attendances[k].registration_id = registrations[idx].id
      /\ (variant = "hosted" /\ lastOp'.op = "processCheckIn" /\ hAttendance' = hAttendance) =>
         \A p \in Scanners, uid \in HostedUids, eventId \in HostedEvents, mc \in HostedCodes :
           HScan(p, uid, eventId, mc[1], mc[2])
           => LET sel == selectRegistration(hRegistrations, hAttendance, uid, roleOf(uid), mc[2], mc[1])
              IN /\ (sel.regError \/ sel.registration = NoRow)
                      => lastOp'.text = <<HMsgInvalid>>
                 /\ (~sel.regError /\ sel.registration # NoRow /\ sel.registration.event_id # eventId)
                      => lastOp'.text = <<HMsgWrongEvent>>
                 /\ lastOp'.text = <<HMsgAlreadyCheckedIn>>
                      => (sel.registration.event_id = eventId /\ sel.attendance # {}) ]_vars

\* the code of a checked-in registration has just been scanned with another
\* event selected and was answered as wrong-event
C23_Witness ==
  /\ lastOp.op = "handleScan"
  /\ lastOp.text = MsgWrongEvent
  /\ \E i \in 1..Len(registrations) :
       /\ registrations[i].id = lastOp.reg
       /\ registrations[i].event_id # lastOp.event
       /\ \E k \in 1..Len(attendances) : attendances[k].registration_id = registrations[i].id

C25_AttendanceReferencesRegistration ==
  \A k \in 1..Len(attendances) :
    \E i \in 1..Len(registrations) :
      /\ registrations[i].id = attendances[k].registration_id
      /\ registrations[i].event_id = attendances[k].event_id
      /\ registrations[i].user_id = attendances[k].user_id

\* checkInAttendee has just stored the record of a stored registration
C25_Witness ==
  /\ lastOp.op = "checkInAttendee"
  /\ lastOp.threw = ""
  /\ \E k \in 1..Len(attendances), i \in 1..Len(registrations) :
       /\ attendances[k].registration_id = lastOp.reg
       /\ registrations[i].id = lastOp.reg
       /\ registrations[i].user_id = attendances[k].user_id

\* C26: for every stored event getEventStats reports no more attendances than
\* registrations, and an attendance rate of 0 when the event has no
\* registrations.
C26_StatsBounded ==
  \A eventId \in EventIds :
    LET stats == getEventStats(registrations, attendances, eventId)
    IN /\ stats.totalAttendances <= stats.totalRegistrations
       /\ stats.totalRegistrations = 0 => stats.attendanceRate[1] = 0

\* two events are stored: one with a registration that is checked in, one
\* without registrations
C26_Witness ==
  \E e1, e2 \in EventIds :
    /\ getEventStats(registrations, attendances, e1).totalAttendances = 1
    /\ getEventStats(registrations, attendances, e1).totalRegistrations = 1
    /\ getEventStats(registrations, attendances, e2).totalRegistrations = 0
    /\ getEventStats(registrations, attendances, e2).attendanceRate = <<0, 1>>

\* C27: in the local variant, within one tab, a handleScan invocation runs its
\* lookup, event check, already-checked-in check and attendance write without
\* yielding; so of two invocations started with the same event and code, the
\* earlier of which checks the attendee in, the later reports already checked
\* in and the registration has exactly one attendance record.
C27_OneTabScansAreAtomic ==
  \A p, q \in Scanners :
    (/\ p < q
     /\ pc[p] # "idle" /\ pc[q] # "idle"
     /\ run[p].event = run[q].event
     /\ run[p].input = run[q].input
     /\ run[p].checkedIn)
    => /\ \E i \in 1..Len(registrations) :
            /\ registrations[i].id = run[p].reg
            /\ run[q].message = MsgAlreadyCheckedIn(registrations[i].user_name)
       /\ ~run[q].checkedIn
       /\ Cardinality({k \in 1..Len(attendances) : attendances[k].registration_id = run[p].reg}) = 1

\* the second invocation for a code has run to its end while the first, which
\* checked the attendee in, is still suspended at its await
C27_Witness ==
  /\ pc[1] = "await"
  /\ pc[2] = "done"
  /\ run[1].checkedIn
  /\ run[2].event = run[1].event
  /\ run[2].input = run[1].input
  /\ Len(attendances) = 1

C29_SignInMakesFreshUser ==
  [][ (lastOp'.op = "signIn" /\ lastOp'.type = "success")
      => /\ currentUser'.id # currentUser.id
         /\ \A i \in 1..Len(registrations') : registrations'[i].user_id # currentUser'.id
         /\ \A eventId \in EventIds :
              /\ checkRegistrationStatus(registrations', eventId, currentUser'.id) = 0
              /\ \A backupCode \in generateBackupCode :
                   registerForEvent(registrations', eventId, currentUser'.id, currentUser'.full_name,
                                    currentUser'.email, idCounter', backupCode).threw = "" ]_vars

\* registerForEvent has just accepted a second registration with the same
\* e-mail address for the same event
C29_Witness ==
  /\ lastOp.op = "registerForEvent"
  /\ lastOp.type = "success"
  /\ \E i, j \in 1..Len(registrations) :
       /\ i < j
       /\ registrations[j].id = lastOp.reg
       /\ registrations[j].user_id = currentUser.id
       /\ registrations[i].event_id = registrations[j].event_id
       /\ registrations[i].user_email = registrations[j].user_email
       /\ registrations[i].user_id # registrations[j].user_id

\* C30: registerForEvent does not look at the event's max_capacity: a
\* registration for an (event, user) pair that is not stored succeeds and is
\* stored also when the event already has max_capacity registrations or more.
C30_CapacityNotEnforced ==
  [][ (/\ lastOp'.op = "registerForEvent"
       /\ getEventById(events, lastOp'.event) # 0
       /\ Len(getEventRegistrations(registrations, lastOp'.event))
            >= events[getEventById(events, lastOp'.event)].max_capacity
       /\ checkRegistrationStatus(registrations, lastOp'.event, lastOp'.input[1]) = 0)
      => /\ lastOp'.type = "success"
         /\ lastOp'.threw = ""
         /\ Len(getEventRegistrations(registrations', lastOp'.event))
              = Len(getEventRegistrations(registrations, lastOp'.event)) + 1 ]_vars

\* an event has more registrations than its max_capacity, the last of them
\* just stored
C30_Witness ==
  /\ lastOp.op = "registerForEvent"
  /\ lastOp.type = "success"
  /\ \E k \in 1..Len(events) :
       /\ events[k].id = lastOp.event
       /\ Len(getEventRegistrations(registrations, events[k].id)) > events[k].max_capacity

====
